---- MODULE Spec2Model ----
(***************************************************************************)
(* Clawtherion server (src/server.js): the public click counter, the       *)
(* Telegram admin webhook with its CONFIRM protocol, and the stall         *)
(* detector.  Every `await` of a handler is a scheduling point, so every   *)
(* handler is a small process whose pc names the operation it is awaiting; *)
(* one action is that operation taking effect followed by the synchronous  *)
(* code up to the next await.                                              *)
(***************************************************************************)
EXTENDS Integers, Sequences, FiniteSets, Bags, TLC

VARIABLES state, clicks, logs, sent, pendingConfirm, limiter, now, req, msg, det

vars == <<state, clicks, logs, sent, pendingConfirm, limiter, now, req, msg, det>>

(* ------------------------------ bounds -------------------------------- *)

\* click requests and webhook messages that arrive in one behaviour
NReqs == 3
NMsgs == 3
\* handlers (requests, messages, detector runs) started in one behaviour
MaxHandlers == 3
\* runs of the stall detector in one behaviour
NRuns == 1
\* handlers (click requests, webhook messages, detector runs) running at once
MaxInFlight == 2
\* largest integer the string <-> integer conversions cover
MaxInt == 120

Reqs == 1..NReqs
Msgs == 1..NMsgs

(* ------------------------- program constants -------------------------- *)

ADMIN_CHAT == "admin"
OTHER_CHAT == "stranger"
Chats == {ADMIN_CHAT, OTHER_CHAT}

\* the identities (req.ip) that click
IPs == {"ip1", "ip2"}
MoreIPs == IPs \cup {"ip3"}

DefaultTarget == 100
ConfirmMs == 60000
WindowMs == 24 * 60 * 60 * 1000
StallMs == 3 * 60 * 60 * 1000
LimiterMax == 1
DefaultLockMsg == "The tide is retreating. The depths are recalibrating."
DefaultWarning == "The tide pool closes soon. The window is narrowing."

StateKeys == {"count", "target", "ca", "launched", "locked", "lock_msg",
              "decree", "tide_warning", "blessed"}

defaults == [count |-> "0", target |-> "100", ca |-> "", launched |-> "false",
             locked |-> "false", lock_msg |-> DefaultLockMsg,
             decree |-> "", tide_warning |-> "", blessed |-> ""]

(* ------------------------ strings and integers ------------------------ *)

\* String(n) for 0 <= n <= MaxInt
Numerals == [i \in 0..MaxInt |-> ToString(i)]

String(n) == Numerals[n]

\* whether parseInt(s) is a number (not NaN), for the strings the model stores
IsNumeric(s) == \E i \in 0..MaxInt : Numerals[i] = s

ToInt(s) == CHOOSE i \in 0..MaxInt : Numerals[i] = s

\* parseInt(s) || d : NaN and 0 are both falsy
ParseIntOr(s, d) == IF IsNumeric(s) /\ ToInt(s) # 0 THEN ToInt(s) ELSE d

\* Math.round(x / y * 100) for x >= 0, y > 0
Pct(x, y) == (200 * x + y) \div (2 * y)

(* ------------------------------ the clock ----------------------------- *)

\* the instants at which the model reads the clock
Instants == {0, ConfirmMs, ConfirmMs + 1, WindowMs}

\* handlers in flight
Busy == Cardinality({r \in Reqs : req[r].pc \notin {"new", "done"}})
        + Cardinality({m \in Msgs : msg[m].pc \notin {"new", "done"}})
        + (IF det.pc = "idle" THEN 0 ELSE 1)

\* handlers started so far
Started == Cardinality({r \in Reqs : req[r].pc # "new"})
           + Cardinality({m \in Msgs : msg[m].pc # "new"})
           + det.runs

\* a new handler may start
MayStart == Busy < MaxInFlight /\ Started < MaxHandlers

\* time passes between bursts of requests
Tick == /\ Busy = 0
        /\ \E t \in Instants : t > now /\ now' = t
        /\ UNCHANGED <<state, clicks, logs, sent, pendingConfirm, limiter, req, msg, det>>

(* ------------------------------ the store ----------------------------- *)

getState(key) == state[key]

setState(key, value) == [state EXCEPT ![key] = value]

\* the tables are multisets of rows (the serial ids are left out); created_at and
\* clicked_at default to NOW()
Row(event, detail) == [event |-> event, detail |-> detail, at |-> now]

addLog(event, detail) == logs (+) SetToBag({Row(event, detail)})

\* SELECT id FROM clicks WHERE ip=$1 AND clicked_at > NOW() - INTERVAL '24 hours'
hasIPClicked(ip) == \E c \in BagToSet(clicks) : c.ip = ip /\ c.at > now - WindowMs

recordIPClick(ip) == clicks (+) SetToBag({[ip |-> ip, at |-> now]})

\* SELECT COUNT(*) FROM clicks WHERE clicked_at > NOW() - INTERVAL ...
ClicksSince(ms) ==
  LET rows == {c \in BagToSet(clicks) : c.at > now - ms}
  IN  BagCardinality([c \in rows |-> clicks[c]])

\* tg(text): one message handed to the Telegram channel
tg(note) == sent (+) SetToBag({note})

(* --------------------------- POST /click ------------------------------ *)

NoReq == [pc |-> "new", ip |-> "", at |-> 0, count |-> 0, target |-> 0, n |-> 0,
          status |-> 0, via |-> ""]

InFlight(r) == req[r].pc \notin {"new", "done"}

Finish(r, code, by) == [req EXCEPT ![r].pc = "done", ![r].status = code, ![r].via = by]

Goto(r, label) == [req EXCEPT ![r].pc = label]

\* faulty variant: windowMs taken for the 60 s of the confirmation
LimiterHit_ShortWindow(ip) ==
  LET e == limiter[ip]
      fresh == e.hits = 0 \/ e.resetTime <= now
  IN  IF fresh THEN [hits |-> 1, resetTime |-> now + ConfirmMs]
      ELSE [e EXCEPT !.hits = e.hits + 1]

\* express-rate-limit in front of the handler: one hit per ip and window
LimiterHit(ip) ==
  LET e == limiter[ip]
      fresh == e.hits = 0 \/ e.resetTime <= now
  IN  IF fresh THEN [hits |-> 1, resetTime |-> now + WindowMs]
      ELSE [e EXCEPT !.hits = e.hits + 1]

ClickArrive(r, ip) ==
  /\ req[r].pc = "new"
  /\ \A q \in Reqs : q < r => req[q].pc # "new"
  /\ MayStart
  /\ limiter' = [limiter EXCEPT ![ip] = LimiterHit(ip)]
  /\ LET a == [req EXCEPT ![r].ip = ip, ![r].at = now]
     IN  req' = IF limiter'[ip].hits > LimiterMax
               THEN [a EXCEPT ![r].pc = "done", ![r].status = 429, ![r].via = "limiter"]
               ELSE [a EXCEPT ![r].pc = "hasIPClicked"]
  /\ UNCHANGED <<state, clicks, logs, sent, pendingConfirm, now, msg, det>>

\* faulty variant: the rejected attempt is recorded too
ClickHasIPClicked_Records(r) ==
  /\ req[r].pc = "hasIPClicked"
  /\ req' = IF hasIPClicked(req[r].ip) THEN Finish(r, 429, "handler")
            ELSE Goto(r, "getLocked")
  /\ clicks' = IF hasIPClicked(req[r].ip) THEN recordIPClick(req[r].ip) ELSE clicks
  /\ UNCHANGED <<state, logs, sent, pendingConfirm, limiter, now, msg, det>>

ClickHasIPClicked(r) ==
  /\ req[r].pc = "hasIPClicked"
  /\ req' = IF hasIPClicked(req[r].ip) THEN Finish(r, 429, "handler")
            ELSE Goto(r, "getLocked")
  /\ UNCHANGED <<state, clicks, logs, sent, pendingConfirm, limiter, now, msg, det>>

ClickGetLocked(r) ==
  /\ req[r].pc = "getLocked"
  /\ req' = IF getState("locked") = "true" THEN Goto(r, "getLockMsg")
            ELSE Goto(r, "getCount")
  /\ UNCHANGED <<state, clicks, logs, sent, pendingConfirm, limiter, now, msg, det>>

ClickGetLockMsg(r) ==
  /\ req[r].pc = "getLockMsg"
  /\ req' = Finish(r, 423, "handler")
  /\ UNCHANGED <<state, clicks, logs, sent, pendingConfirm, limiter, now, msg, det>>

ClickGetCount(r) ==
  /\ req[r].pc = "getCount"
  /\ req' = [req EXCEPT ![r].pc = "getTarget",
                        ![r].count = ParseIntOr(getState("count"), 0)]
  /\ UNCHANGED <<state, clicks, logs, sent, pendingConfirm, limiter, now, msg, det>>

ClickGetTarget(r) ==
  /\ req[r].pc = "getTarget"
  /\ req' = [req EXCEPT ![r].pc = "setCount",
                        ![r].target = ParseIntOr(getState("target"), DefaultTarget),
                        ![r].n = req[r].count + 1]
  /\ UNCHANGED <<state, clicks, logs, sent, pendingConfirm, limiter, now, msg, det>>

ClickSetCount(r) ==
  /\ req[r].pc = "setCount"
  /\ state' = setState("count", String(req[r].n))
  /\ req' = Goto(r, "recordIPClick")
  /\ UNCHANGED <<clicks, logs, sent, pendingConfirm, limiter, now, msg, det>>

ClickRecordIPClick(r) ==
  /\ req[r].pc = "recordIPClick"
  /\ clicks' = recordIPClick(req[r].ip)
  /\ req' = Goto(r, "addLog")
  /\ UNCHANGED <<state, logs, sent, pendingConfirm, limiter, now, msg, det>>

ClickAddLog(r) ==
  /\ req[r].pc = "addLog"
  /\ logs' = addLog("click", <<req[r].ip, String(req[r].n)>>)
  /\ req' = IF req[r].n % 10 = 0 THEN Goto(r, "tgProgress") ELSE Goto(r, "getBlessed")
  /\ UNCHANGED <<state, clicks, sent, pendingConfirm, limiter, now, msg, det>>

\* the supplemental texts appended to a progress notification
Milestones(n, target) ==
  {x \in {"half", "threeq", "ten"} :
     \/ x = "half" /\ n = target \div 2
     \/ x = "threeq" /\ n = (3 * target) \div 4
     \/ x = "ten" /\ n = target - 10}

ClickTgProgress(r) ==
  /\ req[r].pc = "tgProgress"
  /\ sent' = tg([kind |-> "progress", n |-> req[r].n, target |-> req[r].target,
                 pct |-> Pct(req[r].n, req[r].target),
                 extra |-> Milestones(req[r].n, req[r].target)])
  /\ req' = Goto(r, "getBlessed")
  /\ UNCHANGED <<state, clicks, logs, pendingConfirm, limiter, now, msg, det>>

\* after the blessed check: on to the launch check, or the response
AfterBlessed(r) ==
  IF req[r].n >= req[r].target THEN Goto(r, "getLaunched") ELSE Finish(r, 200, "handler")

ClickGetBlessed(r) ==
  /\ req[r].pc = "getBlessed"
  /\ LET blessed == getState("blessed")
     IN  req' = IF blessed # "" /\ IsNumeric(blessed) /\ ToInt(blessed) = req[r].n
               THEN Goto(r, "tgBlessed")
               ELSE AfterBlessed(r)
  /\ UNCHANGED <<state, clicks, logs, sent, pendingConfirm, limiter, now, msg, det>>

ClickTgBlessed(r) ==
  /\ req[r].pc = "tgBlessed"
  /\ sent' = tg([kind |-> "blessed", n |-> req[r].n])
  /\ req' = AfterBlessed(r)
  /\ UNCHANGED <<state, clicks, logs, pendingConfirm, limiter, now, msg, det>>

ClickGetLaunched(r) ==
  /\ req[r].pc = "getLaunched"
  /\ req' = IF getState("launched") # "true" THEN Goto(r, "setLaunched")
            ELSE Finish(r, 200, "handler")
  /\ UNCHANGED <<state, clicks, logs, sent, pendingConfirm, limiter, now, msg, det>>

ClickSetLaunched(r) ==
  /\ req[r].pc = "setLaunched"
  /\ state' = setState("launched", "true")
  /\ req' = Goto(r, "tgLaunched")
  /\ UNCHANGED <<clicks, logs, sent, pendingConfirm, limiter, now, msg, det>>

ClickTgLaunched(r) ==
  /\ req[r].pc = "tgLaunched"
  /\ sent' = tg([kind |-> "launched", n |-> req[r].n])
  /\ req' = Finish(r, 200, "handler")
  /\ UNCHANGED <<state, clicks, logs, pendingConfirm, limiter, now, msg, det>>

Click(r, ips) ==
  \/ \E ip \in ips : ClickArrive(r, ip)
  \/ ClickHasIPClicked(r)
  \/ ClickGetLocked(r)
  \/ ClickGetLockMsg(r)
  \/ ClickGetCount(r)
  \/ ClickGetTarget(r)
  \/ ClickSetCount(r)
  \/ ClickRecordIPClick(r)
  \/ ClickAddLog(r)
  \/ ClickTgProgress(r)
  \/ ClickGetBlessed(r)
  \/ ClickTgBlessed(r)
  \/ ClickGetLaunched(r)
  \/ ClickSetLaunched(r)
  \/ ClickTgLaunched(r)

(* --------------------------- POST /webhook ---------------------------- *)

\* A message text is the list of its words: text.split(' ') of the trimmed text.
\* The messages of the model have at most one argument word.
Cmd(text) == IF text = <<>> THEN "" ELSE text[1]

Arg(text) == IF Len(text) >= 2 THEN text[2] ELSE ""

\* toLowerCase() on the command words the model sends
Lower(w) == CASE w = "/setCA" -> "/setca"
              [] w = "/RESET" -> "/reset"
              [] w = "CONFIRM" -> "confirm"
              [] OTHER -> w

\* arg.length for the argument words the model sends
StrLen(s) == CASE s = "" -> 0
               [] s = "short" -> 5
               [] s = "So1anaAddr3ss" -> 13
               [] OTHER -> 1

\* parseInt(arg) on the argument words the model sends: the leading integer of the
\* word, NaN when there is none
IsNaN(arg) == arg \notin {"3abc", "-5"} /\ ~IsNumeric(arg)

ParseInt(arg) == CASE arg = "3abc" -> 3
                   [] arg = "-5" -> 0 - 5
                   [] OTHER -> ToInt(arg)

\* `!n || n<1` on n = parseInt(arg)
BadCount(arg) == IsNaN(arg) \/ ParseInt(arg) = 0 \/ ParseInt(arg) < 1

NoPending == [command |-> "", expiresAt |-> 0]

\* the operations a handler awaits, in order
Set(key, value) == [op |-> "set", key |-> key, value |-> value]
Log(event, detail) == [op |-> "log", event |-> event, detail |-> detail]
Tg(note) == [op |-> "tg", note |-> note]
Get(key) == [op |-> "get", key |-> key]
TgGot(kind) == [op |-> "tgGot", kind |-> kind]
Clear(keys) == [op |-> "clear", keys |-> keys]
DeleteClicks == [op |-> "deleteClicks"]
Select1 == [op |-> "select1"]
GetAll == [op |-> "getAll"]
CountSince(ms) == [op |-> "countSince", ms |-> ms]
SelectLogs == [op |-> "selectLogs"]

Usage(cmd) == <<Tg([kind |-> "usage", cmd |-> cmd])>>

\* faulty variant: the reset also reopens the site
handleConfirmed_Unlocks(command) ==
  IF command = "reset"
  THEN << Set("count", "0"),
          Clear({"ca", "blessed", "decree", "tide_warning"}),
          Set("launched", "false"),
          Set("locked", "false"),
          DeleteClicks,
          Log("reset", <<"Full reset">>),
          Tg([kind |-> "reset_done"]) >>
  ELSE <<>>

\* faulty variant: the click records survive the reset
handleConfirmed_KeepsClicks(command) ==
  IF command = "reset"
  THEN << Set("count", "0"),
          Clear({"ca", "blessed", "decree", "tide_warning"}),
          Set("launched", "false"),
          Log("reset", <<"Full reset">>),
          Tg([kind |-> "reset_done"]) >>
  ELSE <<>>

handleConfirmed(command) ==
  IF command = "reset"
  THEN << Set("count", "0"),
          Clear({"ca", "blessed", "decree", "tide_warning"}),
          Set("launched", "false"),
          DeleteClicks,
          Log("reset", <<"Full reset">>),
          Tg([kind |-> "reset_done"]) >>
  ELSE <<>>

CmdPing == << Select1, Get("count"), Get("target"), Get("ca"), TgGot("ping") >>

CmdCount == << Get("count"), Get("target"), TgGot("count") >>

CmdStatus == << GetAll, TgGot("status") >>

CmdSetCA(arg) ==
  IF arg = "" \/ StrLen(arg) < 10 THEN Usage("/setca")
  ELSE << Set("ca", arg), Log("set_ca", <<arg>>), Tg([kind |-> "ca_live", arg |-> arg]) >>

CmdDecree(arg) ==
  IF arg = "" THEN Usage("/decree")
  ELSE << Set("decree", arg), Log("decree", <<arg>>), Tg([kind |-> "decree_live", arg |-> arg]) >>

CmdClearDecree == << Set("decree", ""), Tg([kind |-> "decree_cleared"]) >>

CmdBless(arg) ==
  IF BadCount(arg) THEN Usage("/bless")
  ELSE << Set("blessed", String(ParseInt(arg))),
          Tg([kind |-> "blessed_set", n |-> ParseInt(arg)]) >>

CmdLockdown(arg) ==
  LET m == IF arg = "" THEN DefaultLockMsg ELSE arg
  IN  << Set("locked", "true"), Set("lock_msg", m), Log("lockdown", <<m>>),
         Tg([kind |-> "locked", arg |-> m]) >>

\* faulty variant: /unlock writes the wrong key
CmdUnlock_WrongKey ==
  << Set("launched", "false"), Log("unlock", <<"">>), Tg([kind |-> "unlocked"]) >>

CmdUnlock == << Set("locked", "false"), Log("unlock", <<"">>), Tg([kind |-> "unlocked"]) >>

\* faulty variant: only negative numbers are refused
CmdSetTarget_ZeroPasses(arg) ==
  IF IsNaN(arg) \/ ParseInt(arg) < 0 THEN Usage("/settarget")
  ELSE << Set("target", String(ParseInt(arg))), Log("set_target", <<String(ParseInt(arg))>>),
          Tg([kind |-> "target_updated", n |-> ParseInt(arg)]) >>

CmdSetTarget(arg) ==
  IF BadCount(arg) THEN Usage("/settarget")
  ELSE << Set("target", String(ParseInt(arg))), Log("set_target", <<String(ParseInt(arg))>>),
          Tg([kind |-> "target_updated", n |-> ParseInt(arg)]) >>

CmdToday == << CountSince(WindowMs), Get("count"), Get("target"), TgGot("today") >>

CmdVelocity == << CountSince(6 * 60 * 60 * 1000), CountSince(60 * 60 * 1000),
                  TgGot("velocity") >>

CmdTideWarning(arg) ==
  LET m == IF arg = "" THEN DefaultWarning ELSE arg
  IN  << Set("tide_warning", m), Log("tide_warning", <<m>>),
         Tg([kind |-> "warning_set", arg |-> m]) >>

CmdClearTideWarning == << Set("tide_warning", ""), Tg([kind |-> "warning_cleared"]) >>

\* the handler's own tg_command row is in the table, so `No logs yet.` is never sent
CmdLogs == << SelectLogs, TgGot("logs") >>

CmdReset == << Tg([kind |-> "reset_warning"]) >>

CmdHelp == << Tg([kind |-> "help"]) >>

CmdUnknown(cmd) == << Tg([kind |-> "unknown", cmd |-> cmd]) >>

\* the if / else-if chain on cmd
Command(cmd, arg) ==
  CASE cmd = "/ping" -> CmdPing
    [] cmd = "/count" -> CmdCount
    [] cmd = "/status" -> CmdStatus
    [] cmd = "/setca" -> CmdSetCA(arg)
    [] cmd = "/decree" -> CmdDecree(arg)
    [] cmd = "/cleardecree" -> CmdClearDecree
    [] cmd = "/bless" -> CmdBless(arg)
    [] cmd = "/lockdown" -> CmdLockdown(arg)
    [] cmd = "/unlock" -> CmdUnlock
    [] cmd = "/settarget" -> CmdSetTarget(arg)
    [] cmd = "/today" -> CmdToday
    [] cmd = "/velocity" -> CmdVelocity
    [] cmd = "/tidewarning" -> CmdTideWarning(arg)
    [] cmd = "/cleartidewarning" -> CmdClearTideWarning
    [] cmd = "/logs" -> CmdLogs
    [] cmd = "/reset" -> CmdReset
    [] cmd = "/help" -> CmdHelp
    [] OTHER -> CmdUnknown(cmd)

NoMsg == [pc |-> "new", chat |-> "", text |-> <<>>, todo |-> <<>>, got |-> <<>>]

\* a handler that has returned holds nothing
MsgDone(m) == [NoMsg EXCEPT !.pc = "done", !.chat = msg[m].chat, !.text = msg[m].text]

Running(m) == msg[m].pc \notin {"new", "done"}

\* faulty variant: the sender check is missing
IsOperator_Anyone(chat) == TRUE

\* the sender check: only the operator's chat is served
IsOperator(chat) == chat = ADMIN_CHAT

\* the synchronous head of the handler: acknowledge, read chat and text
WebhookArrive(m, chat, text) ==
  /\ msg[m].pc = "new"
  /\ \A q \in Msgs : q < m => msg[q].pc # "new"
  /\ MayStart
  /\ msg' = [msg EXCEPT ![m] = [NoMsg EXCEPT !.chat = chat, !.text = text,
                                  !.pc = IF IsOperator(chat) THEN "addLog" ELSE "done"]]
  /\ UNCHANGED <<state, clicks, logs, sent, pendingConfirm, limiter, now, req, det>>

\* faulty variant: the 60 s are added a second time
Expired_Late(p) == now > p.expiresAt + ConfirmMs

\* whether a CONFIRM read at this instant comes too late
Expired(p) == now > p.expiresAt

\* faulty variant: the pending confirmation stays after a CONFIRM
Consume_Keeps(chat) == pendingConfirm

\* delete pendingConfirm[chatId]
Consume(chat) == [pendingConfirm EXCEPT ![chat] = NoPending]

\* faulty variant: any other command drops the pending confirmation
Pend_OthersCancel(chat, cmd) ==
  IF cmd = "/reset"
  THEN [pendingConfirm EXCEPT ![chat] = [command |-> "reset", expiresAt |-> now + ConfirmMs]]
  ELSE [pendingConfirm EXCEPT ![chat] = NoPending]

\* pendingConfirm after the command chain: only /reset writes an entry
Pend(chat, cmd) ==
  IF cmd = "/reset"
  THEN [pendingConfirm EXCEPT ![chat] = [command |-> "reset", expiresAt |-> now + ConfirmMs]]
  ELSE pendingConfirm

\* addLog('tg_command') returns; then the CONFIRM branch or the command chain
WebhookAddLog(m) ==
  /\ msg[m].pc = "addLog"
  /\ logs' = addLog("tg_command", msg[m].text)
  /\ LET chat == msg[m].chat
         text == msg[m].text
         cmd == Lower(Cmd(text))
         p == pendingConfirm[chat]
         run(script) == [msg EXCEPT ![m] = IF script = <<>> THEN MsgDone(m)
                                                 ELSE [@ EXCEPT !.todo = script, !.pc = "run"]]
     IN  IF text = <<"CONFIRM">> /\ p # NoPending
         THEN /\ pendingConfirm' = Consume(chat)
              /\ msg' = IF Expired(p) THEN run(<<Tg([kind |-> "expired"])>>)
                        ELSE run(handleConfirmed(p.command))
         ELSE /\ pendingConfirm' = Pend(chat, cmd)
              /\ msg' = run(Command(cmd, Arg(text)))
  /\ UNCHANGED <<state, clicks, sent, limiter, now, req, det>>

\* the awaited operation takes effect and the handler moves to the next one
WebhookStep(m) ==
  /\ msg[m].pc = "run"
  /\ LET o == Head(msg[m].todo)
         rest == Tail(msg[m].todo)
         got == CASE o.op = "get" -> Append(msg[m].got, getState(o.key))
                  [] o.op = "getAll" ->
                       msg[m].got \o <<state["count"], state["target"], state["launched"],
                                       state["locked"], state["ca"], state["decree"],
                                       state["tide_warning"], state["blessed"]>>
                  [] o.op = "countSince" -> Append(msg[m].got, String(ClicksSince(o.ms)))
                  [] o.op = "selectLogs" -> Append(msg[m].got, String(BagCardinality(logs)))
                  [] OTHER -> msg[m].got
     IN  /\ state' = CASE o.op = "set" -> setState(o.key, o.value)
                       [] o.op = "clear" ->
                            [k \in StateKeys |-> IF k \in o.keys THEN "" ELSE state[k]]
                       [] OTHER -> state
         /\ clicks' = IF o.op = "deleteClicks" THEN EmptyBag ELSE clicks
         /\ logs' = IF o.op = "log" THEN addLog(o.event, o.detail) ELSE logs
         /\ sent' = CASE o.op = "tg" -> tg(o.note)
                      [] o.op = "tgGot" -> tg([kind |-> o.kind, got |-> msg[m].got])
                      [] OTHER -> sent
         /\ msg' = [msg EXCEPT ![m] = IF rest = <<>> THEN MsgDone(m)
                                         ELSE [@ EXCEPT !.todo = rest, !.got = got]]
  /\ UNCHANGED <<pendingConfirm, limiter, now, req, det>>

(* ---------------------------- stall detector -------------------------- *)

NoDet == [pc |-> "idle", runs |-> 0, got |-> <<>>]

\* SELECT COUNT(*) FROM clicks WHERE clicked_at > NOW() - INTERVAL '3 hours'
RecentClicks == ClicksSince(StallMs)

\* the timer fires: the k-th run comes no earlier than k periods after the start
StallFire ==
  /\ det.pc = "idle"
  /\ det.runs < NRuns
  /\ MayStart
  /\ now >= StallMs * (det.runs + 1)
  /\ det' = [det EXCEPT !.pc = "getLaunched", !.runs = det.runs + 1, !.got = <<>>]
  /\ UNCHANGED <<state, clicks, logs, sent, pendingConfirm, limiter, now, req, msg>>

\* faulty variant: the run goes on when launched is true
StallGetLaunched_NoSkip ==
  /\ det.pc = "getLaunched"
  /\ det' = [det EXCEPT !.pc = "countRecent"]
  /\ UNCHANGED <<state, clicks, logs, sent, pendingConfirm, limiter, now, req, msg>>

StallGetLaunched ==
  /\ det.pc = "getLaunched"
  /\ det' = [det EXCEPT !.pc = IF getState("launched") = "true" THEN "idle" ELSE "countRecent"]
  /\ UNCHANGED <<state, clicks, logs, sent, pendingConfirm, limiter, now, req, msg>>

StallCountRecent ==
  /\ det.pc = "countRecent"
  /\ det' = [det EXCEPT !.pc = IF RecentClicks = 0 THEN "getCount" ELSE "idle"]
  /\ UNCHANGED <<state, clicks, logs, sent, pendingConfirm, limiter, now, req, msg>>

StallGetCount ==
  /\ det.pc = "getCount"
  /\ det' = [det EXCEPT !.pc = "getTarget", !.got = <<getState("count")>>]
  /\ UNCHANGED <<state, clicks, logs, sent, pendingConfirm, limiter, now, req, msg>>

StallGetTarget ==
  /\ det.pc = "getTarget"
  /\ det' = [det EXCEPT !.pc = "tg", !.got = Append(det.got, getState("target"))]
  /\ UNCHANGED <<state, clicks, logs, sent, pendingConfirm, limiter, now, req, msg>>

StallTg ==
  /\ det.pc = "tg"
  /\ sent' = tg([kind |-> "stall", got |-> det.got])
  /\ det' = [det EXCEPT !.pc = "idle"]
  /\ UNCHANGED <<state, clicks, logs, pendingConfirm, limiter, now, req, msg>>

Stall == \/ StallFire
         \/ StallGetLaunched
         \/ StallCountRecent
         \/ StallGetCount
         \/ StallGetTarget
         \/ StallTg

(* ----------------------------- behaviours ----------------------------- *)

\* initDB inserts a default only where the key is absent, so the process starts on
\* the store as an earlier run left it: a fresh database; or one click short of a
\* target of 10 with click 10 blessed, the nine clicks a day apart and older than
\* the 24 hours; or after one accepted click; or after `/lockdown`
OldRow(event, detail, at) == [event |-> event, detail |-> detail, at |-> at]

OldClicks == 9

Stores ==
  { [state |-> defaults, clicks |-> EmptyBag, logs |-> EmptyBag],
    [state |-> [defaults EXCEPT !.count = String(OldClicks),
                                !.target = String(OldClicks + 1),
                                !.blessed = String(OldClicks + 1)],
     clicks |-> SetToBag({[ip |-> "ip3", at |-> 0 - k * WindowMs] : k \in 1..OldClicks}),
     logs |-> SetToBag({OldRow("click", <<"ip3", String(OldClicks + 1 - k)>>,
                               0 - k * WindowMs) : k \in 1..OldClicks})
              (+) SetToBag({OldRow("tg_command", <<"/settarget", String(OldClicks + 1)>>, 0),
                            OldRow("set_target", <<String(OldClicks + 1)>>, 0),
                            OldRow("tg_command", <<"/bless", String(OldClicks + 1)>>, 0)})],
    [state |-> [defaults EXCEPT !.count = "1"],
     clicks |-> SetToBag({[ip |-> "ip1", at |-> 0]}),
     logs |-> SetToBag({OldRow("click", <<"ip1", "1">>, 0)})],
    [state |-> [defaults EXCEPT !.locked = "true"], clicks |-> EmptyBag,
     logs |-> SetToBag({OldRow("tg_command", <<"/lockdown">>, 0),
                        OldRow("lockdown", <<DefaultLockMsg>>, 0)})] }

Init ==
  /\ \E s \in Stores : state = s.state /\ clicks = s.clicks /\ logs = s.logs
  /\ sent = EmptyBag
  /\ pendingConfirm = [c \in Chats |-> NoPending]
  /\ limiter = [ip \in MoreIPs |-> [hits |-> 0, resetTime |-> 0]]
  /\ now = 0
  /\ req = [r \in Reqs |-> NoReq]
  /\ msg = [m \in Msgs |-> NoMsg]
  /\ det = NoDet

NextClicks == \/ \E r \in Reqs : Click(r, MoreIPs)
              \/ Tick

SpecClicks == Init /\ [][NextClicks]_vars

\* the messages that arrive, each with the chat it comes from
From(chat, texts) == {<<chat, text>> : text \in texts}

Inbox == From(ADMIN_CHAT, { <<"/reset">>, <<"CONFIRM">>, <<"/settarget", "20">>,
                            <<"/lockdown">>, <<"/unlock">> })
         \cup From(OTHER_CHAT, { <<"/reset">>, <<"CONFIRM">> })

Webhook(m, inbox) ==
  \/ \E x \in inbox : WebhookArrive(m, x[1], x[2])
  \/ WebhookAddLog(m)
  \/ WebhookStep(m)

Next == \/ \E r \in Reqs : Click(r, IPs)
        \/ \E m \in Msgs : Webhook(m, Inbox)
        \/ Stall
        \/ Tick

Spec == Init /\ [][Next]_vars

\* the queries of handleConfirmed('reset') are what this handler still has to run
Resetting(h) == h.pc = "run" /\ h.todo[Len(h.todo)] = Tg([kind |-> "reset_done"])

\* a confirmed reset runs with no click request and no other message in flight
ResetAlone ==
  \A m \in Msgs : Resetting(msg[m]) =>
    /\ \A r \in Reqs : ~InFlight(r)
    /\ \A q \in Msgs : q # m => ~Running(q)

\* the same handlers, where a CONFIRM is read only once the click requests and the
\* other messages have returned and none starts before the confirmed command has
\* finished
NextQuiet == \/ \E r \in Reqs : Click(r, IPs) /\ ResetAlone'
             \/ \E m \in Msgs : Webhook(m, Inbox) /\ ResetAlone'
             \/ Stall /\ ResetAlone'
             \/ Tick

SpecQuiet == Init /\ [][NextQuiet]_vars

\* the command word of a message
CmdOf(h) == Lower(Cmd(h.text))

\* commands with and without a valid argument, and /count
ArgInbox == From(ADMIN_CHAT, { <<"/settarget", "abc">>, <<"/settarget", "0">>,
                               <<"/settarget", "-5">>, <<"/settarget">>,
                               <<"/settarget", "20">>, <<"/settarget", "3abc">>,
                               <<"/bless", "abc">>, <<"/bless", "0">>, <<"/bless", "2">>,
                               <<"/decree">>, <<"/decree", "hello">>,
                               <<"/setCA", "short">>, <<"/setca">>,
                               <<"/setca", "So1anaAddr3ss">>,
                               <<"/count">> })

\* a /count runs with no /settarget in flight
CountAlone ==
  \A m, q \in Msgs : (Running(m) /\ CmdOf(msg[m]) = "/count" /\ Running(q))
                         => CmdOf(msg[q]) # "/settarget"

\* the admin channel alone, where a /count follows the /settarget commands
NextArgs == \E m \in Msgs : Webhook(m, ArgInbox) /\ CountAlone'

SpecArgs == Init /\ [][NextArgs]_vars

\* a run of the detector overlaps no other handler
DetAlone == det.pc # "idle" => Busy = 1

\* the same handlers, where the detector runs between the others
NextStall == \/ \E r \in Reqs : Click(r, IPs) /\ DetAlone'
             \/ \E m \in Msgs : Webhook(m, Inbox) /\ DetAlone'
             \/ Stall /\ DetAlone'
             \/ Tick

SpecStall == Init /\ [][NextStall]_vars

\* the store after n accepted clicks of n visitors, a second apart and older than
\* the 24 hours
Past(n) ==
  [state |-> [defaults EXCEPT !.count = String(n)],
   clicks |-> SetToBag({[ip |-> "visitor" \o String(k), at |-> 0 - WindowMs - 1000 * (n + 1 - k)] :
                          k \in 1..n}),
   logs |-> SetToBag({OldRow("click", <<"visitor" \o String(k), String(k)>>,
                             0 - WindowMs - 1000 * (n + 1 - k)) : k \in 1..n})]

\* one click before each milestone of the default target
MilestoneStores == {Past(DefaultTarget \div 2 - 1), Past((3 * DefaultTarget) \div 4 - 1),
                    Past(DefaultTarget - 11)}

InitMilestones ==
  /\ \E s \in Stores \cup MilestoneStores : state = s.state /\ clicks = s.clicks /\ logs = s.logs
  /\ sent = EmptyBag
  /\ pendingConfirm = [c \in Chats |-> NoPending]
  /\ limiter = [ip \in MoreIPs |-> [hits |-> 0, resetTime |-> 0]]
  /\ now = 0
  /\ req = [r \in Reqs |-> NoReq]
  /\ msg = [m \in Msgs |-> NoMsg]
  /\ det = NoDet

\* click requests alone, around the milestones
SpecMilestones == InitMilestones /\ [][NextClicks]_vars

\* the steps of a click request that await the store
ClickQuery(r) ==
  \/ ClickHasIPClicked(r)
  \/ ClickGetLocked(r)
  \/ ClickGetLockMsg(r)
  \/ ClickGetCount(r)
  \/ ClickGetTarget(r)
  \/ ClickSetCount(r)
  \/ ClickRecordIPClick(r)
  \/ ClickAddLog(r)
  \/ ClickGetBlessed(r)
  \/ ClickGetLaunched(r)
  \/ ClickSetLaunched(r)

\* click requests alone; every query of the store returns, while the fetch of a
\* notification send (node-fetch, no timeout set) need not
SpecSends == Init /\ [][NextClicks]_vars /\ \A r \in Reqs : WF_vars(ClickQuery(r))

(* ------------------------------- claims ------------------------------- *)

Count == ToInt(state["count"])

Target == ToInt(state["target"])

Quiet == \A r \in Reqs : req[r].pc \in {"new", "done"}

Accepted == {r \in Reqs : req[r].status = 200}

\* rows of the log with this event
LogRows(event) ==
  LET rows == {e \in BagToSet(logs) : e.event = event}
  IN  BagCardinality([e \in rows |-> logs[e]])

\* notifications of this kind handed to the channel
Notes(kind) ==
  LET ns == {x \in BagToSet(sent) : x.kind = kind}
  IN  BagCardinality([x \in ns |-> sent[x]])

\* C1: no lost updates.  With only click requests running, once all of them have
\* finished the stored count is its value at the start plus the number of accepted
\* clicks.  The store starts with as many click rows in the log as its count, and
\* every accepted click appends one row, so that sum is the number of click rows.
C1_NoLostUpdates ==
  (Quiet /\ Accepted # {}) => Count = LogRows("click")

\* C2: the launched notification is sent at most once, also when several accepted
\* clicks cross the target at the same time.
C2_LaunchedNotifiedOnce == Notes("launched") <= 1

\* C3: whenever the stored launched flag goes from false to true, the stored count
\* is at least the stored target at that write.
C3_LaunchOnlyAtTarget ==
  [][(state["launched"] # "true" /\ state'["launched"] = "true")
       => ToInt(state'["count"]) >= ToInt(state'["target"])]_vars

\* C4: the stored count never decreases; every change of it is an increase by one.
C4_CountStepsByOne ==
  [][state'["count"] # state["count"]
       => ToInt(state'["count"]) = ToInt(state["count"]) + 1]_vars

\* C5 as claimed: once launched is true it stays true.
C5_LaunchedOneWay ==
  [][state["launched"] = "true" => state'["launched"] = "true"]_vars

\* C5 amended: once launched is true, the only step that sets it back to false is
\* the third query of a confirmed reset; no click request, detector run or other
\* admin command does.
C5_OnlyResetUnlaunches ==
  [][(state["launched"] = "true" /\ state'["launched"] # "true")
       => \E m \in Msgs : /\ Resetting(msg[m])
                          /\ Head(msg[m].todo) = Set("launched", "false")
                          /\ msg'[m] # msg[m]]_vars

C5_Witness ==
  /\ state["launched"] = "false"
  /\ Notes("launched") >= 1
  /\ Notes("reset_done") >= 1

Zeroed ==
  /\ state["count"] = "0"
  /\ \A k \in {"ca", "blessed", "decree", "tide_warning"} : state[k] = ""
  /\ state["launched"] = "false"
  /\ clicks = EmptyBag

\* C6: when the confirmed command runs with no click request and no other message
\* in flight, a CONFIRM read no later than the pending confirmation's expiresAt
\* (60 s after its /reset) starts the reset, and when that reset has finished count
\* is 0, ca, blessed, decree and tide_warning are empty, launched is false and no
\* ClickRecord is left.
C6_ConfirmedResetZeroes ==
  [][\A m \in Msgs :
       /\ ( /\ msg[m].pc = "addLog"
            /\ msg'[m] # msg[m]
            /\ msg[m].text = <<"CONFIRM">>
            /\ pendingConfirm[msg[m].chat].command = "reset"
            /\ now <= pendingConfirm[msg[m].chat].expiresAt )
          => Resetting(msg'[m])
       /\ (Resetting(msg[m]) /\ msg'[m].pc = "done") => Zeroed']_vars

C6_Witness ==
  /\ Busy = 0
  /\ Notes("reset_done") >= 1
  /\ LogRows("click") >= 1
  /\ \E m \in Msgs : msg[m].pc = "done" /\ msg[m].text = <<"CONFIRM">>
  /\ Zeroed

\* C7: a CONFIRM read after the pending confirmation's expiresAt changes no State
\* field and no ClickRecord, removes the pending entry, and its one remaining step
\* sends the expiry message, again without touching State or ClickRecords.
C7_ExpiredConfirmNoEffect ==
  [][\A m \in Msgs :
       /\ ( /\ msg[m].pc = "addLog"
            /\ msg'[m] # msg[m]
            /\ msg[m].text = <<"CONFIRM">>
            /\ pendingConfirm[msg[m].chat] # NoPending
            /\ now > pendingConfirm[msg[m].chat].expiresAt )
          => /\ UNCHANGED <<state, clicks>>
             /\ pendingConfirm'[msg[m].chat] = NoPending
             /\ msg'[m].pc = "run"
             /\ msg'[m].todo = <<Tg([kind |-> "expired"])>>
       /\ ( /\ msg[m].pc = "run"
            /\ msg'[m] # msg[m]
            /\ Head(msg[m].todo) = Tg([kind |-> "expired"]) )
          => /\ UNCHANGED <<state, clicks, pendingConfirm>>
             /\ sent' = sent (+) SetToBag({[kind |-> "expired"]})
             /\ msg'[m].pc = "done"]_vars

C7_Witness ==
  /\ Notes("expired") >= 1
  /\ pendingConfirm[ADMIN_CHAT] = NoPending
  /\ \E m \in Msgs : msg[m].pc = "done" /\ msg[m].text = <<"CONFIRM">>

\* the positions of a click request before it reads the count
PreGate == {"new", "hasIPClicked", "getLocked", "getLockMsg"}

\* C8: a click request is answered 429 or 423 only from a position before the
\* count is read, it never returns to such a position, and no step taken from
\* such a position changes State, ClickRecords, the log or the notifications.
C8_RejectedClickNoEffect ==
  [][\A r \in Reqs : req'[r] # req[r] =>
       /\ req'[r].status \in {429, 423} => req[r].pc \in PreGate
       /\ req'[r].pc \in PreGate => req[r].pc \in PreGate
       /\ req[r].pc \in PreGate => UNCHANGED <<state, clicks, logs, sent, pendingConfirm>>]_vars

C8_Witness ==
  /\ \E r \in Reqs : req[r].status = 423
  /\ \E r \in Reqs : req[r].status = 429 /\ req[r].via = "handler"
  /\ Count >= 1

\* a request that got past the limiter
Gated(r) == req[r].pc # "new" /\ req[r].via # "limiter"

\* C9: two requests of one identity that both got past the limiter arrived at
\* least one 24 h window apart, whatever became of the first one.
C9_OneAttemptPerWindow ==
  \A r1, r2 \in Reqs :
    (r1 < r2 /\ Gated(r1) /\ Gated(r2) /\ req[r1].ip = req[r2].ip)
      => req[r2].at - req[r1].at >= WindowMs

C9_Witness ==
  \E r1, r2 \in Reqs :
    /\ r1 < r2
    /\ req[r1].ip = req[r2].ip
    /\ req[r1].status = 423
    /\ req[r2].status = 429 /\ req[r2].via = "limiter"
    /\ req[r2].at - req[r1].at < WindowMs
    /\ state["locked"] = "false"
    /\ \E e \in BagToSet(logs) :
         e.event = "unlock" /\ req[r1].at < e.at /\ e.at < req[r2].at

\* C10: no step of a message from another chat than the operator's changes State,
\* ClickRecords, the notifications or a pending confirmation, and such a message is
\* finished at once.
C10_StrangerIgnored ==
  [][\A m \in Msgs : (msg'[m] # msg[m] /\ msg'[m].chat # ADMIN_CHAT)
       => /\ UNCHANGED <<state, clicks, sent, pendingConfirm>>
          /\ msg'[m].pc = "done"]_vars

C10_Witness ==
  /\ pendingConfirm[ADMIN_CHAT] # NoPending
  /\ \E m \in Msgs : /\ msg[m].pc = "done"
                     /\ msg[m].chat = OTHER_CHAT
                     /\ msg[m].text = <<"CONFIRM">>
  /\ \E m \in Msgs : /\ msg[m].pc = "done"
                     /\ msg[m].chat = OTHER_CHAT
                     /\ msg[m].text = <<"/reset">>

\* the count arguments that do not parse to an integer >= 1
InvalidCount == {"", "abc", "0", "-5"}

\* whether the argument of this message fails the validation of its command
InvalidArg(h) ==
  \/ CmdOf(h) \in {"/settarget", "/bless"} /\ Arg(h.text) \in InvalidCount
  \/ CmdOf(h) = "/decree" /\ Arg(h.text) = ""
  \/ CmdOf(h) = "/setca" /\ Arg(h.text) \in {"", "short"}

\* C11: a command whose argument fails validation queues the usage message alone,
\* sends it and leaves State unchanged at both steps; the write of /settarget with a
\* valid n stores n as the target, and a /count with no /settarget in flight reports
\* the stored target.
C11_InvalidArgUsage ==
  [][\A m \in Msgs : (msg'[m] # msg[m] /\ msg[m].pc # "new") =>
       LET h == msg[m] IN
       /\ InvalidArg(h) =>
            /\ state' = state
            /\ h.pc = "addLog" => msg'[m].todo = <<Tg([kind |-> "usage", cmd |-> CmdOf(h)])>>
            /\ h.pc = "run" =>
                 /\ sent' = sent (+) SetToBag({[kind |-> "usage", cmd |-> CmdOf(h)]})
                 /\ msg'[m].pc = "done"
       /\ (CmdOf(h) = "/settarget" /\ Arg(h.text) = "20" /\ h.pc = "run"
             /\ Head(h.todo).op = "set") => state'["target"] = "20"
       /\ (CmdOf(h) = "/settarget" /\ Arg(h.text) = "3abc" /\ h.pc = "run"
             /\ Head(h.todo).op = "set") => state'["target"] = "3"
       /\ (CmdOf(h) = "/count" /\ h.pc = "run" /\ Head(h.todo).op = "tgGot") =>
            \E c \in {state[k] : k \in StateKeys} :
              sent' = sent (+) SetToBag({[kind |-> "count", got |-> <<c, state["target"]>>]})]_vars

C11_Witness ==
  /\ Notes("usage") >= 1
  /\ state["target"] = "20"
  /\ \E x \in BagToSet(sent) : x.kind = "count" /\ x.got[2] = "20"
  /\ \A m \in Msgs : msg[m].pc = "done"

\* C12: a run of the detector that overlaps no other handler ends with one stall
\* notification, carrying the stored count and target, exactly when launched is not
\* true and no ClickRecord lies in the trailing 3 hours, and with none otherwise; no
\* step of a run changes State, ClickRecords, the log or a pending confirmation;
\* and nothing else sends a stall notification.
C12_StallIffIdle ==
  [][/\ det' # det =>
          /\ UNCHANGED <<state, clicks, logs, pendingConfirm>>
          /\ det'.pc # "idle" => sent' = sent
          /\ (det.pc # "idle" /\ det'.pc = "idle") =>
               IF state["launched"] # "true" /\ ClicksSince(StallMs) = 0
               THEN sent' = sent (+) SetToBag({[kind |-> "stall",
                                                 got |-> <<state["count"], state["target"]>>]})
               ELSE sent' = sent
     /\ det' = det => Notes("stall")' = Notes("stall")]_vars

C12_Witness ==
  /\ det.pc = "idle" /\ det.runs >= 1
  /\ Notes("stall") >= 1
  /\ state["launched"] = "false"
  /\ clicks # EmptyBag

\* progress notifications that carry this supplemental text
Supplements(x) ==
  LET ns == {y \in BagToSet(sent) :
               y.kind = "progress" /\ y.target = DefaultTarget /\ x \in y.extra}
  IN  BagCardinality([y \in ns |-> sent[y]])

\* an accepted click has finished with this post-increment value
Clicked(n) ==
  \E r \in Reqs : /\ req[r].pc = "done" /\ req[r].status = 200
                   /\ req[r].n = n /\ req[r].target = DefaultTarget

\* C13: with the target at 100, each milestone text is sent at most once, the
\* halfway text once click 50 has finished, the three-quarters text once click 75
\* has finished and the 10-remaining text once click 90 has finished.
C13_MilestonesOnce ==
  /\ \A x \in {"half", "threeq", "ten"} : Supplements(x) <= 1
  /\ Clicked(50) => Supplements("half") = 1
  /\ Clicked(75) => Supplements("threeq") = 1
  /\ Clicked(90) => Supplements("ten") = 1

\* confirmed resets begun: those logged and those still before their log row
ResetsStarted ==
  LogRows("reset")
  + Cardinality({m \in Msgs : /\ Resetting(msg[m])
                              /\ \E i \in 1..Len(msg[m].todo) : msg[m].todo[i].op = "log"})

\* /reset commands the operator's handler has read
ResetCommands ==
  LET rows == {e \in BagToSet(logs) : e.event = "tg_command" /\ e.detail = <<"/reset">>}
  IN  BagCardinality([e \in rows |-> logs[e]])

\* C14: there are never more confirmed resets than /reset commands; every /reset
\* writes the pending entry anew with expiresAt 60 s after it; a CONFIRM that
\* finds an entry removes it; a reset begins only at a CONFIRM that finds an entry
\* not yet expired; and a CONFIRM that finds none runs nothing but the
\* unknown-command reply.
C14_ConsumedOnce ==
  [][/\ ResetsStarted' <= ResetCommands'
     /\ \A m \in Msgs : (msg[m].pc = "addLog" /\ msg'[m] # msg[m]) =>
          LET h == msg[m]
              p == pendingConfirm[h.chat]
          IN  /\ (CmdOf(h) = "/reset") =>
                   pendingConfirm'[h.chat] = [command |-> "reset", expiresAt |-> now + ConfirmMs]
              /\ (h.text = <<"CONFIRM">> /\ p # NoPending) =>
                   pendingConfirm'[h.chat] = NoPending
              /\ (h.text = <<"CONFIRM">> /\ p = NoPending) =>
                   /\ UNCHANGED pendingConfirm
                   /\ msg'[m].todo = <<Tg([kind |-> "unknown", cmd |-> "confirm"])>>
              /\ Resetting(msg'[m]) =>
                   h.text = <<"CONFIRM">> /\ p.command = "reset" /\ now <= p.expiresAt]_vars

C14_Witness ==
  /\ Busy = 0
  /\ ResetCommands = 1
  /\ Notes("reset_done") = 1
  /\ \E x \in BagToSet(sent) : x.kind = "unknown" /\ x.cmd = "confirm"

\* C15: a click request that is sending its progress, blessed or launched
\* notification is answered, whether or not the send returns.
C15_SendNeverBlocks ==
  \A r \in Reqs :
    (req[r].pc \in {"tgProgress", "tgBlessed", "tgLaunched"})
      ~> (req[r].pc = "done" /\ req[r].status = 200)

\* C16: every message of another chat than the operator's that has been dropped has
\* its tg_command row in the log.
C16_StrangerLogged ==
  \A m \in Msgs : (msg[m].pc = "done" /\ msg[m].chat # ADMIN_CHAT) =>
    \E e \in BagToSet(logs) : e.event = "tg_command" /\ e.detail = msg[m].text

\* C17: while locked stays true the stored count does not change.
C17_LockedCountFrozen ==
  [][(state["locked"] = "true" /\ state'["locked"] = "true")
       => state'["count"] = state["count"]]_vars

\* C18: whenever no handler is in flight the stored count is at most the number of
\* ClickRecords.
C18_CountWithinRecords == Busy = 0 => Count <= BagCardinality(clicks)

\* C19: the pending confirmations change only when the operator's handler reads a
\* /reset or a CONFIRM, so no other message, click request or detector run cancels
\* one; and a CONFIRM read no later than the entry's expiresAt begins the reset.
C19_PendingSurvives ==
  [][/\ pendingConfirm' # pendingConfirm =>
          \E m \in Msgs : /\ msg[m].pc = "addLog" /\ msg'[m] # msg[m]
                           /\ msg[m].chat = ADMIN_CHAT
                           /\ (msg[m].text = <<"CONFIRM">> \/ CmdOf(msg[m]) = "/reset")
     /\ \A m \in Msgs :
          ( /\ msg[m].pc = "addLog" /\ msg'[m] # msg[m]
            /\ msg[m].text = <<"CONFIRM">>
            /\ pendingConfirm[msg[m].chat].command = "reset"
            /\ now <= pendingConfirm[msg[m].chat].expiresAt )
          => /\ msg'[m].pc = "run"
             /\ Head(msg'[m].todo) = Set("count", "0")]_vars

\* the operator has sent /reset, another command and CONFIRM, in this order
C19_Witness ==
  /\ Busy = 0
  /\ \A m \in 1..3 : msg[m].pc = "done" /\ msg[m].chat = ADMIN_CHAT
  /\ msg[1].text = <<"/reset">>
  /\ msg[2].text \in {<<"/lockdown">>, <<"/unlock">>, <<"/settarget", "20">>}
  /\ msg[3].text = <<"CONFIRM">>
  /\ Notes("reset_done") = 1
  /\ \E e \in BagToSet(logs) : e.event = "tg_command" /\ e.detail = <<"CONFIRM">> /\ e.at = ConfirmMs

\* C20: no step of a confirmed reset changes target, locked or lock_msg, and none
\* removes a row of the log.
C20_ResetFrame ==
  [][\A m \in Msgs : (Resetting(msg[m]) /\ msg'[m] # msg[m]) =>
       /\ \A k \in {"target", "locked", "lock_msg"} : state'[k] = state[k]
       /\ logs \sqsubseteq logs']_vars

C20_Witness ==
  /\ Busy = 0
  /\ Notes("reset_done") >= 1
  /\ LogRows("reset") >= 1
  /\ state["locked"] = "true" /\ LogRows("lockdown") >= 1
  /\ state["target"] = "20" /\ LogRows("set_target") >= 1

====
